---- MODULE Spec2Model ----
(***************************************************************************)
(* Model of the Soroban betting contract                                   *)
(* (contract/contracts/betting/src/lib.rs) and of the player-card contract *)
(* (contract/contracts/player_card/src/lib.rs, storage.rs).                *)
(*                                                                         *)
(* The persistent storage of the betting contract is one variable per      *)
(* DataKey, that of the player-card contract one variable per key prefix.  *)
(* Every public entry point is one action that runs the whole handler      *)
(* atomically, as the host does: the handler's checks in source order,     *)
(* then its writes.  A call is made while no result is outstanding; it     *)
(* leaves its arguments, the set of addresses that authorized it, its      *)
(* result and the events it published (the host attaches the events of a   *)
(* committed invocation to it and drops those of a failed one) in          *)
(* lastCall, and Return hands that to the caller.  The events of the       *)
(* committed calls accumulate in the bag events, which keeps how often     *)
(* each event was emitted but not the order of the calls.  The ledger      *)
(* clock advances between calls.                                           *)
(***************************************************************************)
EXTENDS Integers, Sequences, FiniteSets, Bags

VARIABLES
    BackendSigner,          \* DataKey::BackendSigner: an Address, or None
    PreventDoubleBetting,   \* DataKey::PreventDoubleBetting: {} when absent, {b} when set
    Bets,                   \* DataKey::Bet(match_id, bettor) -> Bet (the keys present)
    SpinExecutions,         \* DataKey::SpinExecutions: Map spin_id -> SpinExecution
    UsedSpinHashes,         \* DataKey::UsedSpinHashes: Map spin_hash -> bool
    balance,                \* the token contracts' ledgers: token -> address -> amount
    events,                 \* the events of the committed calls so far, as a bag
    ADMIN,                  \* player card, key ADMIN: an Address, or None
    NEXT_TOKEN_ID,          \* player card, key NEXT_TOKEN_ID: {} when absent, {n} when set
    TOKEN_OWNER,            \* player card, keys (TOKEN_OWNER, token_id) -> Address
    TOKEN_URI,              \* player card, keys (TOKEN_URI, token_id) -> String
    OWNER_TOKENS,           \* player card, keys (OWNER_TOKENS, owner) -> Vec<u64>
    timestamp,              \* env.ledger().timestamp()
    lastCall                \* the call that has just run, with its result

vars == <<BackendSigner, PreventDoubleBetting, Bets, SpinExecutions,
          UsedSpinHashes, balance, events, ADMIN, NEXT_TOKEN_ID, TOKEN_OWNER,
          TOKEN_URI, OWNER_TOKENS, timestamp, lastCall>>

\* the storage of the player-card contract
cards == <<ADMIN, NEXT_TOKEN_ID, TOKEN_OWNER, TOKEN_URI, OWNER_TOKENS>>

\* everything a call can change: the contract's storage, the token ledgers
\* and the events emitted so far
ledgers == <<BackendSigner, PreventDoubleBetting, Bets, SpinExecutions,
             UsedSpinHashes, balance, events, cards>>

-----------------------------------------------------------------------------
(* Bounds and input domains *)

MaxTime == 1
InitBalance == 2

None == "None"
Addresses == {"alice", "bob"}
ContractAddress == "contract"
Tokens == {"TKN"}
AuthSets == SUBSET Addresses

\* Inputs of the replay-ledger runs: two spins, two hashes, two signatures,
\* two executors, and one bettor's bets of one size on one match
SpinIds == {"id1", "id4"}
SpinHashes == {"h2", "h5"}
Signatures == {"sig3", "sig6"}
FewBettors == {"alice"}
FewMatchIds == {"m1"}
FewAmounts == {0, 1}
BetKinds == {<<"win", 200>>}

\* Inputs of the escrow-ledger runs: two bettors, two matches, stakes from
\* negative to the whole balance, and one spin
MatchIds == {"m1", "m2"}
Amounts == {-1, 0, 1, 2}
FewExecutors == {"bob"}
FewSpinIds == {"id1"}
FewSpinHashes == {"h2"}
FewSignatures == {"sig3"}

\* Inputs of the repeated-bet runs: one bettor's bets on one match, of two
\* sizes and two kinds, and one spin
Stakes == {1, 2}
TwoBetKinds == {<<"win", 200>>, <<"draw", 350>>}

\* What each account holds before the first call: alice the whole stake
\* budget, bob one unit less, the contract nothing
InitialFunds(a) ==
    IF a = "alice" THEN InitBalance
    ELSE IF a = "bob" THEN InitBalance - 1
    ELSE 0

NoCall == [op |-> "none"]

-----------------------------------------------------------------------------
(* soroban_sdk::Map and keyed storage: get / has / set *)

MapHas(m, k) == k \in DOMAIN m

\* Faulty variant of MapSet: the entry is written into a fresh map, so the
\* entries read before are lost
MapSetLosingOthers(m, k, v) == [x \in {k} |-> v]

MapSet(m, k, v) == [x \in (DOMAIN m) \cup {k} |-> IF x = k THEN v ELSE m[x]]

EmptyMap == [x \in {} |-> TRUE]

\* Address::require_auth: passes iff the address authorized this invocation
RequireAuth(addr, auths) == addr \in auths

\* Faulty variant of Committed: the writes of a failed invocation are kept
CommittedAlways(result) == TRUE

\* An entry point returning Result: the host keeps the writes of an invocation
\* that returns Ok(()) and drops those of one that returns Err or traps
Committed(result) == result = "Ok"

\* env.events().publish: the events of an invocation join those emitted so far
Publish(published) ==
    IF published = <<>> THEN events ELSE events (+) SetToBag({published[1]})

-----------------------------------------------------------------------------
Init ==
    /\ BackendSigner = None
    /\ PreventDoubleBetting = {}
    /\ Bets = EmptyMap
    /\ SpinExecutions = EmptyMap
    /\ UsedSpinHashes = EmptyMap
    /\ balance = [t \in Tokens |->
                    [a \in Addresses \cup {ContractAddress} |->
                        InitialFunds(a)]]
    /\ events = EmptyBag
    /\ ADMIN = None
    /\ NEXT_TOKEN_ID = {}
    /\ TOKEN_OWNER = EmptyMap
    /\ TOKEN_URI = EmptyMap
    /\ OWNER_TOKENS = EmptyMap
    /\ timestamp = 0
    /\ lastCall = NoCall

-----------------------------------------------------------------------------
(* initialize *)

initialize(backend_signer) ==
    /\ lastCall = NoCall
    /\ BackendSigner' = backend_signer
    /\ lastCall' = [op |-> "initialize", backend_signer |-> backend_signer,
                    result |-> "Ok", published |-> <<>>]
    /\ UNCHANGED <<PreventDoubleBetting, Bets, SpinExecutions, UsedSpinHashes,
                   balance, events, cards, timestamp>>

-----------------------------------------------------------------------------
(* place_bet *)

\* Faulty variant of AmountInvalid: a zero stake is let through
AmountInvalidOnlyNegative(amount) == amount < 0

\* line 58: the stake is rejected when it is not strictly positive
AmountInvalid(amount) == amount <= 0

\* line 65 and is_double_betting_prevented: storage.get(..).unwrap_or(false)
\* Faulty variant of is_double_betting_prevented: the getter reports whether
\* the key is present instead of the stored flag
DoubleBettingPreventedIfStored == PreventDoubleBetting # {}

is_double_betting_prevented ==
    IF PreventDoubleBetting = {} THEN FALSE ELSE CHOOSE b \in PreventDoubleBetting : TRUE

\* Faulty variant of DoubleBetBlocked: the Bet is looked up by match alone,
\* whoever placed it
DoubleBetBlockedPerMatch(match_id, bettor) ==
    /\ is_double_betting_prevented
    /\ \E b \in Addresses : MapHas(Bets, <<match_id, b>>)

\* lines 66-70: the policy is on and a Bet is stored under (match_id, bettor)
DoubleBetBlocked(match_id, bettor) ==
    is_double_betting_prevented /\ MapHas(Bets, <<match_id, bettor>>)

\* token::Client::transfer of the token contract: `from` must have authorized
\* the invocation and hold the amount, otherwise the call traps
\* Faulty variant of TransferFails: the token contract moves the amount
\* whatever the sender holds
TransferFailsNever(token, from, amount, auths) == FALSE

TransferFails(token, from, amount, auths) ==
    \/ ~RequireAuth(from, auths)
    \/ amount < 0
    \/ balance[token][from] < amount

\* Faulty variant of TransferBalances: the receiver is credited and the
\* sender is not debited
TransferBalancesNoDebit(token, from, to, amount) ==
    [balance EXCEPT ![token] =
        [a \in DOMAIN balance[token] |->
            balance[token][a] + (IF a = to THEN amount ELSE 0)]]

\* Faulty variant of TransferBalances: the amount moves from the receiver
\* to the sender
TransferBalancesReversed(token, from, to, amount) ==
    [balance EXCEPT ![token] =
        [a \in DOMAIN balance[token] |->
            balance[token][a] + (IF a = from THEN amount ELSE 0)
                              - (IF a = to THEN amount ELSE 0)]]

TransferBalances(token, from, to, amount) ==
    [balance EXCEPT ![token] =
        [a \in DOMAIN balance[token] |->
            balance[token][a] - (IF a = from THEN amount ELSE 0)
                              + (IF a = to THEN amount ELSE 0)]]

PlaceBetResult(bettor, token_address, amount, match_id, auths) ==
    IF ~RequireAuth(bettor, auths) THEN "AuthFailed"
    ELSE IF AmountInvalid(amount) THEN "InvalidAmount"
    ELSE IF DoubleBetBlocked(match_id, bettor) THEN "BetAlreadyPlaced"
    ELSE IF TransferFails(token_address, bettor, amount, auths) THEN "TransferFailed"
    ELSE "Ok"

\* Faulty variant of NewBet: a Bet already stored under (match_id, bettor)
\* is kept instead of being replaced
NewBetKeepingFirst(bettor, amount, match_id, bet_type, odds) ==
    IF MapHas(Bets, <<match_id, bettor>>) THEN Bets[<<match_id, bettor>>]
    ELSE [bettor |-> bettor, amount |-> amount, match_id |-> match_id,
          bet_type |-> bet_type, odds |-> odds, timestamp |-> timestamp]

\* lines 77-85
NewBet(bettor, amount, match_id, bet_type, odds) ==
    [bettor |-> bettor, amount |-> amount, match_id |-> match_id,
     bet_type |-> bet_type, odds |-> odds, timestamp |-> timestamp]

\* lines 90-98: topics ("bet_placed", match_id), data BetPlacedEvent
BetPlacedEvent(bettor, amount, match_id) ==
    [topics |-> <<"bet_placed", match_id>>,
     data |-> [bettor |-> bettor, bet_id |-> "bet", amount |-> amount]]

place_bet(bettor, token_address, amount, match_id, bet_type, odds, auths) ==
    LET result == PlaceBetResult(bettor, token_address, amount, match_id, auths)
        published == IF Committed(result)
                     THEN <<BetPlacedEvent(bettor, amount, match_id)>> ELSE <<>>
    IN  /\ lastCall = NoCall
        /\ lastCall' = [op |-> "place_bet", bettor |-> bettor,
                        token_address |-> token_address, amount |-> amount,
                        match_id |-> match_id, bet_type |-> bet_type, odds |-> odds,
                        auths |-> auths, result |-> result, published |-> published]
        /\ IF Committed(result)
           THEN /\ balance' = TransferBalances(token_address, bettor,
                                               ContractAddress, amount)
                /\ Bets' = MapSet(Bets, <<match_id, bettor>>,
                                  NewBet(bettor, amount, match_id, bet_type, odds))
                /\ events' = Publish(published)
           ELSE UNCHANGED <<balance, Bets, events>>
        /\ UNCHANGED <<BackendSigner, PreventDoubleBetting, SpinExecutions,
                       UsedSpinHashes, cards, timestamp>>

-----------------------------------------------------------------------------
(* set_prevent_double_betting *)

\* Faulty variant of SetPreventResult: any address that authorized the call
\* may set the policy once a signer is configured
SetPreventResultAnyAdmin(admin, auths) ==
    IF BackendSigner = None THEN "Unauthorized"
    ELSE IF ~RequireAuth(admin, auths) THEN "AuthFailed"
    ELSE "Ok"

SetPreventResult(admin, auths) ==
    IF BackendSigner = None THEN "Unauthorized"
    ELSE IF ~RequireAuth(admin, auths) THEN "AuthFailed"
    ELSE IF admin # BackendSigner THEN "Unauthorized"
    ELSE "Ok"

set_prevent_double_betting(admin, prevent, auths) ==
    LET result == SetPreventResult(admin, auths)
    IN  /\ lastCall = NoCall
        /\ lastCall' = [op |-> "set_prevent_double_betting", admin |-> admin,
                        prevent |-> prevent, auths |-> auths, result |-> result,
                        published |-> <<>>]
        /\ PreventDoubleBetting' =
              IF Committed(result) THEN {prevent} ELSE PreventDoubleBetting
        /\ UNCHANGED <<BackendSigner, Bets, SpinExecutions, UsedSpinHashes,
                       balance, events, cards, timestamp>>

-----------------------------------------------------------------------------
(* execute_spin and the read-only entry points of the replay ledger *)

is_spin_executed(spin_id) == MapHas(SpinExecutions, spin_id)

is_spin_hash_used(spin_hash) == MapHas(UsedSpinHashes, spin_hash)

get_spin_execution(spin_id) ==
    IF MapHas(SpinExecutions, spin_id)
    THEN [ok |-> TRUE, value |-> SpinExecutions[spin_id]]
    ELSE [ok |-> FALSE, error |-> "SpinNotFound"]

\* Faulty variant of SignerMissing: a missing signer is not reported
SignerMissingIgnored == FALSE

\* lines 149-151: the stored backend signer, or Err(Unauthorized)
SignerMissing == BackendSigner = None

\* Faulty variant of SpinHashReplayed: the replay check is skipped
SpinHashReplayedSkipped(spin_hash) == FALSE

\* line 158: used_hashes.get(spin_hash).is_some()
SpinHashReplayed(spin_hash) == MapHas(UsedSpinHashes, spin_hash)

\* Faulty variant of BackendAuthorized: the backend signer's authorization
\* is not required
BackendAuthorizedSkipped(auths) == TRUE

\* line 163: backend_signer.require_auth()
BackendAuthorized(auths) == RequireAuth(BackendSigner, auths)

\* Faulty variant of SpinIdDuplicate: the spin_id check is skipped
SpinIdDuplicateSkipped(spin_id) == FALSE

\* line 171: executions.get(spin_id).is_some()
SpinIdDuplicate(spin_id) == MapHas(SpinExecutions, spin_id)

\* Faulty variant of ExecuteSpinResult: the signature argument is compared
\* with the one value the backend is taken to have signed
ExecuteSpinResultSignatureChecked(spin_id, spin_hash, signature, executor, auths) ==
    IF ~RequireAuth(executor, auths) THEN "AuthFailed"
    ELSE IF SignerMissing THEN "Unauthorized"
    ELSE IF SpinHashReplayed(spin_hash) THEN "SpinAlreadyExecuted"
    ELSE IF signature # "sig3" THEN "Unauthorized"
    ELSE IF SpinIdDuplicate(spin_id) THEN "SpinAlreadyExecuted"
    ELSE "Ok"

ExecuteSpinResult(spin_id, spin_hash, signature, executor, auths) ==
    IF ~RequireAuth(executor, auths) THEN "AuthFailed"
    ELSE IF SignerMissing THEN "Unauthorized"
    ELSE IF SpinHashReplayed(spin_hash) THEN "SpinAlreadyExecuted"
    ELSE IF ~BackendAuthorized(auths) THEN "AuthFailed"
    ELSE IF SpinIdDuplicate(spin_id) THEN "SpinAlreadyExecuted"
    ELSE "Ok"

\* Faulty variant of NewSpinExecution: the timestamp is left at its zero
\* placeholder instead of being read from the ledger
NewSpinExecutionZeroTime(spin_id, executor) ==
    [spin_id |-> spin_id, executor |-> executor, timestamp |-> 0]

\* lines 175-181
NewSpinExecution(spin_id, executor) ==
    [spin_id |-> spin_id, executor |-> executor, timestamp |-> timestamp]

\* Faulty variant of NewExecutions: the map is rebuilt from Map::new instead
\* of from a clone of the stored one
NewExecutionsFromEmpty(spin_id, executor) ==
    MapSet(EmptyMap, spin_id, NewSpinExecution(spin_id, executor))

\* lines 184-186
NewExecutions(spin_id, executor) ==
    MapSet(SpinExecutions, spin_id, NewSpinExecution(spin_id, executor))

\* Faulty variant of NewHashes: the map is rebuilt from Map::new instead of
\* from a clone of the stored one
NewHashesFromEmpty(spin_hash) == MapSet(EmptyMap, spin_hash, TRUE)

\* lines 189-191
\* Faulty variant of NewHashes: the hash of the executed spin is not marked
NewHashesUnmarked(spin_hash) == UsedSpinHashes

NewHashes(spin_hash) == MapSet(UsedSpinHashes, spin_hash, TRUE)

\* lines 194-200: topics ("spin_executed",), data SpinExecutedEvent
\* Faulty variant of SpinExecutedEvent: the timestamp is left at the zero
\* placeholder of the event constructor in common/events.rs
SpinExecutedEventZeroTime(spin_id, executor) ==
    [topics |-> <<"spin_executed">>,
     data |-> [spin_id |-> spin_id, executor |-> executor, timestamp |-> 0]]

SpinExecutedEvent(spin_id, executor) ==
    [topics |-> <<"spin_executed">>,
     data |-> [spin_id |-> spin_id, executor |-> executor, timestamp |-> timestamp]]

execute_spin(spin_id, spin_hash, signature, executor, auths) ==
    LET result == ExecuteSpinResult(spin_id, spin_hash, signature, executor, auths)
        published == IF Committed(result)
                     THEN <<SpinExecutedEvent(spin_id, executor)>> ELSE <<>>
    IN  /\ lastCall = NoCall
        /\ lastCall' = [op |-> "execute_spin", spin_id |-> spin_id,
                        spin_hash |-> spin_hash, signature |-> signature,
                        executor |-> executor, auths |-> auths,
                        result |-> result, published |-> published]
        /\ IF Committed(result)
           THEN /\ SpinExecutions' = NewExecutions(spin_id, executor)
                /\ UsedSpinHashes' = NewHashes(spin_hash)
                /\ events' = Publish(published)
           ELSE UNCHANGED <<SpinExecutions, UsedSpinHashes, events>>
        /\ UNCHANGED <<BackendSigner, PreventDoubleBetting, Bets, balance,
                       cards, timestamp>>

-----------------------------------------------------------------------------
(* The player-card contract: storage.rs *)

MaxTokens == 3

TokenIds == 1 .. MaxTokens
TokenUris == {"uri"}
CardContractAddress == "player_card"

\* Symbol::short("PLAYER_CARD"), lib.rs 62: the name has 11 characters, two
\* more than a short symbol holds.  Whether the call yields a symbol or
\* panics is decided by the SDK of the build, so both outcomes are taken.
SymbolShortAccepts == BOOLEAN

\* Faulty variant of has_admin: the key is never found
HasAdminNever == FALSE

has_admin == ADMIN # None

\* get(ADMIN).unwrap(): the callers below handle the absent key themselves
get_admin == ADMIN

\* get(NEXT_TOKEN_ID).unwrap_or(1)
get_next_token_id ==
    IF NEXT_TOKEN_ID = {} THEN 1 ELSE CHOOSE n \in NEXT_TOKEN_ID : TRUE

\* the Vec stored for `owner` in the index `tokens_of`, or Vec::new
TokensOf(tokens_of, owner) ==
    IF MapHas(tokens_of, owner) THEN tokens_of[owner] ELSE <<>>

get_tokens_of_owner(owner) == TokensOf(OWNER_TOKENS, owner)

\* tokens.iter().position(|id| id == token_id), 1-based; 0 for None
Position(tokens, token_id) ==
    IF \E i \in 1 .. Len(tokens) : tokens[i] = token_id
    THEN CHOOSE i \in 1 .. Len(tokens) :
            /\ tokens[i] = token_id
            /\ \A j \in 1 .. (i - 1) : tokens[j] # token_id
    ELSE 0

\* Vec::remove(index)
RemoveAt(tokens, i) ==
    SubSeq(tokens, 1, i - 1) \o SubSeq(tokens, i + 1, Len(tokens))

add_token_to_owner(tokens_of, owner, token_id) ==
    MapSet(tokens_of, owner, Append(TokensOf(tokens_of, owner), token_id))

\* Faulty variant of remove_token_from_owner: the old owner keeps the token
RemoveTokenSkipped(tokens_of, owner, token_id) == tokens_of

remove_token_from_owner(tokens_of, owner, token_id) ==
    LET tokens == TokensOf(tokens_of, owner)
        index == Position(tokens, token_id)
    IN  IF index = 0 THEN tokens_of
        ELSE MapSet(tokens_of, owner, RemoveAt(tokens, index))

\* set_owner: the token leaves the Vec of its old owner, if it has one, the
\* owner key is written, and the token joins the Vec of the new owner as
\* that Vec is after the removal
set_owner(token_id, owner) ==
    /\ TOKEN_OWNER' = MapSet(TOKEN_OWNER, token_id, owner)
    /\ OWNER_TOKENS' =
          add_token_to_owner(
              IF MapHas(TOKEN_OWNER, token_id)
              THEN remove_token_from_owner(OWNER_TOKENS, TOKEN_OWNER[token_id],
                                           token_id)
              ELSE OWNER_TOKENS,
              owner, token_id)

-----------------------------------------------------------------------------
(* The player-card contract: lib.rs *)

owner_of(token_id) ==
    IF MapHas(TOKEN_OWNER, token_id)
    THEN [ok |-> TRUE, value |-> TOKEN_OWNER[token_id]]
    ELSE [ok |-> FALSE, error |-> "token not found"]

token_uri_of(token_id) ==
    IF MapHas(TOKEN_URI, token_id)
    THEN [ok |-> TRUE, value |-> TOKEN_URI[token_id]]
    ELSE [ok |-> FALSE, error |-> "token not found"]

total_supply == get_next_token_id - 1

tokens_of_owner(owner) == get_tokens_of_owner(owner)

\* the NFTMintEvent the three entry points publish under (NFT_MINT_EVENT,);
\* the narrowing of the token id to u32 leaves the ids up to MaxTokens as
\* they are
NFTMintEvent(token_id, to, token_uri, mint_type) ==
    [topics |-> <<"NFT_MINT">>,
     data |-> [token_id |-> token_id, to |-> to,
               token_uri |-> token_uri, nft_contract |-> CardContractAddress,
               timestamp |-> timestamp, mint_type |-> mint_type,
               metadata |-> EmptyMap, price |-> None]]

CardInitializeResult == IF has_admin THEN "already initialized" ELSE "Ok"

card_initialize(admin) ==
    LET result == CardInitializeResult
    IN  /\ lastCall = NoCall
        /\ lastCall' = [op |-> "card_initialize", admin |-> admin,
                        result |-> result,
                        published |->
                            IF Committed(result)
                            THEN <<NFTMintEvent(0, admin, "contract_initialized",
                                                "INIT")>>
                            ELSE <<>>]
        /\ IF Committed(result)
           THEN /\ ADMIN' = admin
                /\ NEXT_TOKEN_ID' = {1}
           ELSE UNCHANGED <<ADMIN, NEXT_TOKEN_ID>>
        /\ UNCHANGED <<BackendSigner, PreventDoubleBetting, Bets, SpinExecutions,
                       UsedSpinHashes, balance, events, TOKEN_OWNER, TOKEN_URI,
                       OWNER_TOKENS, timestamp>>

MintResult(auths, accepted) ==
    IF ~has_admin THEN "unwrap on None"
    ELSE IF ~RequireAuth(get_admin, auths) THEN "AuthFailed"
    ELSE IF ~accepted THEN "symbol too long"
    ELSE "Ok"

mint(to, token_uri, auths, accepted) ==
    LET result == MintResult(auths, accepted)
        token_id == get_next_token_id
    IN  /\ lastCall = NoCall
        /\ token_id <= MaxTokens
        /\ lastCall' = [op |-> "mint", to |-> to, token_uri |-> token_uri,
                        auths |-> auths, result |-> result,
                        value |-> IF Committed(result) THEN token_id ELSE 0,
                        published |->
                            IF Committed(result)
                            THEN <<NFTMintEvent(token_id, to, token_uri,
                                                "PLAYER_CARD")>>
                            ELSE <<>>]
        /\ IF Committed(result)
           THEN /\ NEXT_TOKEN_ID' = {token_id + 1}
                /\ set_owner(token_id, to)
                /\ TOKEN_URI' = MapSet(TOKEN_URI, token_id, token_uri)
           ELSE UNCHANGED <<NEXT_TOKEN_ID, TOKEN_OWNER, OWNER_TOKENS, TOKEN_URI>>
        /\ UNCHANGED <<BackendSigner, PreventDoubleBetting, Bets, SpinExecutions,
                       UsedSpinHashes, balance, events, ADMIN, timestamp>>

TransferResult(from, token_id, auths) ==
    IF ~RequireAuth(from, auths) THEN "AuthFailed"
    ELSE IF ~MapHas(TOKEN_OWNER, token_id) THEN "token not found"
    ELSE IF TOKEN_OWNER[token_id] # from THEN "not token owner"
    ELSE "Ok"

transfer(from, to, token_id, auths) ==
    LET result == TransferResult(from, token_id, auths)
    IN  /\ lastCall = NoCall
        /\ lastCall' = [op |-> "transfer", from |-> from, to |-> to,
                        token_id |-> token_id, auths |-> auths,
                        result |-> result,
                        published |->
                            IF Committed(result)
                            THEN <<NFTMintEvent(token_id, to, TOKEN_URI[token_id],
                                                "TRANSFER")>>
                            ELSE <<>>]
        /\ IF Committed(result)
           THEN set_owner(token_id, to)
           ELSE UNCHANGED <<TOKEN_OWNER, OWNER_TOKENS>>
        /\ UNCHANGED <<BackendSigner, PreventDoubleBetting, Bets, SpinExecutions,
                       UsedSpinHashes, balance, events, ADMIN, NEXT_TOKEN_ID,
                       TOKEN_URI, timestamp>>

-----------------------------------------------------------------------------
(* The ledger closes and the caller takes the result *)

Tick ==
    /\ lastCall = NoCall
    /\ timestamp < MaxTime
    /\ timestamp' = timestamp + 1
    /\ UNCHANGED <<ledgers, lastCall>>

Return ==
    /\ lastCall # NoCall
    /\ lastCall' = NoCall
    /\ UNCHANGED <<ledgers, timestamp>>

Calls(spin_ids, spin_hashes, signatures, executors, bettors, match_ids, amounts, kinds) ==
    \/ \E backend_signer \in Addresses : initialize(backend_signer)
    \/ \E bettor \in bettors, token \in Tokens, amount \in amounts,
          match_id \in match_ids, kind \in kinds, auths \in AuthSets :
            place_bet(bettor, token, amount, match_id, kind[1], kind[2], auths)
    \/ \E admin \in Addresses, prevent \in BOOLEAN, auths \in AuthSets :
            set_prevent_double_betting(admin, prevent, auths)
    \/ \E spin_id \in spin_ids, spin_hash \in spin_hashes, signature \in signatures,
          executor \in executors, auths \in AuthSets :
            execute_spin(spin_id, spin_hash, signature, executor, auths)

NextSpin ==
    \/ Calls(SpinIds, SpinHashes, Signatures, Addresses, FewBettors, FewMatchIds,
             FewAmounts, BetKinds)
    \/ Tick
    \/ Return

NextBet ==
    \/ Calls(FewSpinIds, FewSpinHashes, FewSignatures, FewExecutors, Addresses,
             MatchIds, Amounts, BetKinds)
    \/ Tick
    \/ Return

NextOverwrite ==
    \/ Calls(FewSpinIds, FewSpinHashes, FewSignatures, FewExecutors, FewBettors,
             FewMatchIds, Stakes, TwoBetKinds)
    \/ Tick
    \/ Return

CardCalls ==
    \/ \E admin \in Addresses : card_initialize(admin)
    \/ \E to \in Addresses, token_uri \in TokenUris, auths \in AuthSets,
          accepted \in SymbolShortAccepts :
            mint(to, token_uri, auths, accepted)
    \/ \E from \in Addresses, to \in Addresses, token_id \in TokenIds,
          auths \in AuthSets :
            transfer(from, to, token_id, auths)

NextCards ==
    \/ CardCalls
    \/ Tick
    \/ Return

\* Every entry point with the replay ledger's inputs at full width
SpecSpin == Init /\ [][NextSpin]_vars

\* Every entry point with the escrow ledger's inputs at full width
SpecBet == Init /\ [][NextBet]_vars

\* Every entry point with repeated bets of one bettor on one match, of two
\* sizes and two kinds
SpecOverwrite == Init /\ [][NextOverwrite]_vars

\* Every entry point of the player-card contract
SpecCards == Init /\ [][NextCards]_vars

-----------------------------------------------------------------------------
(* Steps and observations the properties below are stated over *)

\* a step in which an entry point runs
IsCall(op) == lastCall = NoCall /\ lastCall'.op = op

\* the executor and the configured backend signer both authorized the call
BothAuthorized(call) ==
    /\ RequireAuth(call.executor, call.auths)
    /\ BackendSigner # None
    /\ RequireAuth(BackendSigner, call.auths)

-----------------------------------------------------------------------------
\* C1 (as amended): with the contract initialized and the executor and the
\* backend signer both authorizing, an executeSpin for a spinId that has no
\* execution yet succeeds when its spinHash has not been consumed, and every
\* executeSpin for a spinId that has already executed fails with
\* SpinAlreadyExecuted, whatever spinHash it carries.
C1_DuplicateSpinIdRejected ==
    [][(IsCall("execute_spin") /\ BothAuthorized(lastCall'))
        => /\ (~is_spin_executed(lastCall'.spin_id)
                 /\ ~is_spin_hash_used(lastCall'.spin_hash))
              => lastCall'.result = "Ok"
           /\ is_spin_executed(lastCall'.spin_id)
              => lastCall'.result = "SpinAlreadyExecuted"]_vars

\* C1 (as stated): for every spinId and spinHash, the first executeSpin of the
\* spinId succeeds and every later one fails with SpinAlreadyExecuted.
C1_FirstSpinAlwaysSucceeds ==
    [][(IsCall("execute_spin") /\ BothAuthorized(lastCall'))
        => lastCall'.result = (IF is_spin_executed(lastCall'.spin_id)
                               THEN "SpinAlreadyExecuted" ELSE "Ok")]_vars

\* a fully authorized executeSpin was refused for its spinId alone: the hash
\* it carried is one no execution has consumed
C1_Witness ==
    /\ lastCall.op = "execute_spin"
    /\ BothAuthorized(lastCall)
    /\ lastCall.result = "SpinAlreadyExecuted"
    /\ is_spin_executed(lastCall.spin_id)
    /\ ~is_spin_hash_used(lastCall.spin_hash)

-----------------------------------------------------------------------------
\* C2 (as amended): once a spinHash has been consumed, every later executeSpin
\* that carries it fails and records nothing, for any spinId; it fails with
\* SpinAlreadyExecuted when the executor authorized the call, and at the
\* executor's require_auth otherwise.
C2_ConsumedHashRejected ==
    [][(IsCall("execute_spin") /\ is_spin_hash_used(lastCall'.spin_hash))
        => /\ lastCall'.result =
                 (IF RequireAuth(lastCall'.executor, lastCall'.auths)
                  THEN "SpinAlreadyExecuted" ELSE "AuthFailed")
           /\ UNCHANGED <<SpinExecutions, UsedSpinHashes>>]_vars

\* C2 (as stated): every later executeSpin carrying a consumed spinHash with
\* another spinId fails with SpinAlreadyExecuted and records no execution.
C2_ConsumedHashAlwaysSpinAlreadyExecuted ==
    [][(/\ IsCall("execute_spin")
        /\ is_spin_hash_used(lastCall'.spin_hash)
        /\ ~is_spin_executed(lastCall'.spin_id))
        => /\ lastCall'.result = "SpinAlreadyExecuted"
           /\ ~MapHas(SpinExecutions', lastCall'.spin_id)]_vars

\* a consumed hash was replayed under a spinId that has no execution, and the
\* call was refused
C2_Witness ==
    /\ lastCall.op = "execute_spin"
    /\ lastCall.result = "SpinAlreadyExecuted"
    /\ is_spin_hash_used(lastCall.spin_hash)
    /\ ~is_spin_executed(lastCall.spin_id)

-----------------------------------------------------------------------------
\* C3: isSpinExecuted(spinId) is false initially, turns true only in a
\* successful executeSpin of that spinId, does turn true there, and once true
\* stays true across every later call.
C3_SpinExecutedForever ==
    /\ \A id \in SpinIds : ~is_spin_executed(id)
    /\ [][\A id \in SpinIds :
            /\ is_spin_executed(id) => is_spin_executed(id)'
            /\ (~is_spin_executed(id) /\ is_spin_executed(id)')
               => /\ IsCall("execute_spin")
                  /\ lastCall'.spin_id = id
                  /\ lastCall'.result = "Ok"
            /\ (IsCall("execute_spin") /\ lastCall'.spin_id = id
                  /\ lastCall'.result = "Ok")
               => is_spin_executed(id)']_vars

\* a spin is still reported executed after another spin has executed
C3_Witness ==
    /\ lastCall.op = "execute_spin"
    /\ lastCall.result = "Ok"
    /\ \E id \in SpinIds : id # lastCall.spin_id /\ is_spin_executed(id)

-----------------------------------------------------------------------------
\* C4: isSpinHashUsed(spinHash) is false initially, turns true exactly in a
\* successful executeSpin carrying that spinHash, is never reset, and a failed
\* executeSpin marks nothing.
C4_SpinHashUsedForever ==
    /\ \A h \in SpinHashes : ~is_spin_hash_used(h)
    /\ [][\A h \in SpinHashes :
            /\ is_spin_hash_used(h) => is_spin_hash_used(h)'
            /\ (~is_spin_hash_used(h) /\ is_spin_hash_used(h)')
               <=> /\ IsCall("execute_spin")
                   /\ lastCall'.spin_hash = h
                   /\ lastCall'.result = "Ok"]_vars

\* a failed executeSpin left its own hash unused while an earlier hash stays
\* marked
C4_Witness ==
    /\ lastCall.op = "execute_spin"
    /\ lastCall.result # "Ok"
    /\ ~is_spin_hash_used(lastCall.spin_hash)
    /\ \E h \in SpinHashes : is_spin_hash_used(h)

-----------------------------------------------------------------------------
\* C5: getSpinExecution(spinId) returns SpinNotFound as long as no executeSpin
\* of spinId has succeeded; the successful executeSpin(spinId, _, _, executor)
\* at ledger time t makes it return {spin_id = spinId, executor = executor,
\* timestamp = t}; and from then on it returns that same record after every
\* call.
C5_SpinExecutionRecordImmutable ==
    /\ \A id \in SpinIds : get_spin_execution(id) = [ok |-> FALSE, error |-> "SpinNotFound"]
    /\ [][\A id \in SpinIds :
            LET executes == /\ IsCall("execute_spin")
                            /\ lastCall'.spin_id = id
                            /\ lastCall'.result = "Ok"
            IN  /\ executes
                   => get_spin_execution(id)' =
                        [ok |-> TRUE,
                         value |-> [spin_id |-> id,
                                    executor |-> lastCall'.executor,
                                    timestamp |-> timestamp]]
                /\ get_spin_execution(id).ok
                   => get_spin_execution(id)' = get_spin_execution(id)
                /\ (~get_spin_execution(id).ok /\ ~executes)
                   => get_spin_execution(id)' =
                        [ok |-> FALSE, error |-> "SpinNotFound"]]_vars

\* a record made at an earlier ledger time is still returned, unchanged in
\* its timestamp, after the clock has moved on and another spin has executed
C5_Witness ==
    /\ lastCall.op = "execute_spin"
    /\ lastCall.result = "Ok"
    /\ \E id \in SpinIds :
          /\ id # lastCall.spin_id
          /\ get_spin_execution(id).ok
          /\ get_spin_execution(id).value.timestamp < timestamp
          /\ get_spin_execution(id).value.executor # lastCall.executor

-----------------------------------------------------------------------------
\* C6: a call to placeBet, setPreventDoubleBetting or executeSpin that fails,
\* for whatever reason, leaves the backend signer, the policy flag, the stored
\* bets, the spin executions, the used hashes and every token balance as they
\* were, and publishes no event.
C6_FailedCallChangesNothing ==
    [][(/\ lastCall = NoCall
        /\ lastCall'.op \in {"place_bet", "set_prevent_double_betting",
                             "execute_spin"}
        /\ lastCall'.result # "Ok")
        => /\ UNCHANGED ledgers
           /\ lastCall'.published = <<>>]_vars

\* a placeBet that passed the amount and policy checks failed in the token
\* transfer, with a Bet already stored under its key
C6_Witness ==
    /\ lastCall.op = "place_bet"
    /\ lastCall.result = "TransferFailed"
    /\ MapHas(Bets, <<lastCall.match_id, lastCall.bettor>>)

-----------------------------------------------------------------------------
\* C7 (as amended): while no backend signer is stored, every executeSpin fails
\* and records nothing, for any spinId, spinHash, signature and executor; it
\* fails with Unauthorized when the executor authorized the call, and at the
\* executor's require_auth otherwise.
C7_UninitializedSpinRejected ==
    [][(IsCall("execute_spin") /\ BackendSigner = None)
        => /\ lastCall'.result =
                 (IF RequireAuth(lastCall'.executor, lastCall'.auths)
                  THEN "Unauthorized" ELSE "AuthFailed")
           /\ UNCHANGED <<SpinExecutions, UsedSpinHashes>>]_vars

\* C7 (as stated): while no backend signer is stored, every executeSpin fails
\* with Unauthorized and records nothing.
C7_UninitializedAlwaysUnauthorized ==
    [][(IsCall("execute_spin") /\ BackendSigner = None)
        => /\ lastCall'.result = "Unauthorized"
           /\ UNCHANGED <<SpinExecutions, UsedSpinHashes>>]_vars

\* an executeSpin that everybody authorized was refused because the contract
\* is not initialized
C7_Witness ==
    /\ lastCall.op = "execute_spin"
    /\ BackendSigner = None
    /\ lastCall.auths = Addresses
    /\ lastCall.result = "Unauthorized"

-----------------------------------------------------------------------------
\* C8: the spin executions and the used hashes change only in an executeSpin
\* that the supplied executor and the backend signer configured at that time
\* both authorized.
C8_SpinRecordedOnlyWhenAuthorized ==
    [][(SpinExecutions' # SpinExecutions \/ UsedSpinHashes' # UsedSpinHashes)
        => /\ IsCall("execute_spin")
           /\ BothAuthorized(lastCall')]_vars

\* a spin was recorded by a call that two different addresses, the executor
\* and the backend signer, authorized
C8_Witness ==
    /\ lastCall.op = "execute_spin"
    /\ lastCall.result = "Ok"
    /\ lastCall.executor # BackendSigner
    /\ is_spin_executed(lastCall.spin_id)
    /\ BothAuthorized(lastCall)

-----------------------------------------------------------------------------
\* C9 (as amended): for every bettor, token, matchId, betType and odds, a
\* placeBet with amount <= 0 fails, moves no tokens and stores or changes no
\* Bet; it fails with InvalidAmount when the bettor authorized the call, and at
\* the bettor's require_auth otherwise.
C9_NonPositiveAmountRejected ==
    [][(IsCall("place_bet") /\ lastCall'.amount <= 0)
        => /\ lastCall'.result =
                 (IF RequireAuth(lastCall'.bettor, lastCall'.auths)
                  THEN "InvalidAmount" ELSE "AuthFailed")
           /\ UNCHANGED <<balance, Bets>>]_vars

\* C9 (as stated): every placeBet with amount <= 0 fails with InvalidAmount,
\* moves no tokens and stores or changes no Bet.
C9_NonPositiveAlwaysInvalidAmount ==
    [][(IsCall("place_bet") /\ lastCall'.amount <= 0)
        => /\ lastCall'.result = "InvalidAmount"
           /\ UNCHANGED <<balance, Bets>>]_vars

\* a placeBet with a zero stake was refused with InvalidAmount while a Bet
\* placed earlier is stored under the same (matchId, bettor)
C9_Witness ==
    /\ lastCall.op = "place_bet"
    /\ lastCall.amount = 0
    /\ lastCall.result = "InvalidAmount"
    /\ MapHas(Bets, <<lastCall.match_id, lastCall.bettor>>)

-----------------------------------------------------------------------------
\* C10: a placeBet that the bettor authorized, with a positive amount the
\* bettor holds, fails with BetAlreadyPlaced when double-betting prevention is
\* enabled at the time of the call and a Bet is stored for its (matchId,
\* bettor), whenever that Bet was placed; in every other case it succeeds:
\* with prevention disabled, and with prevention enabled whatever Bets other
\* bettors or other matchIds have.
C10_DoubleBetPolicy ==
    [][(/\ IsCall("place_bet")
        /\ RequireAuth(lastCall'.bettor, lastCall'.auths)
        /\ lastCall'.amount > 0
        /\ balance[lastCall'.token_address][lastCall'.bettor] >= lastCall'.amount)
        => lastCall'.result =
              (IF /\ is_double_betting_prevented
                  /\ MapHas(Bets, <<lastCall'.match_id, lastCall'.bettor>>)
               THEN "BetAlreadyPlaced" ELSE "Ok")]_vars

\* with prevention enabled, a second bet of a bettor on a match was refused
\* although the bettor could pay for it, while the other bettor has a Bet on
\* that match too
C10_Witness ==
    /\ lastCall.op = "place_bet"
    /\ lastCall.result = "BetAlreadyPlaced"
    /\ is_double_betting_prevented
    /\ balance[lastCall.token_address][lastCall.bettor] >= lastCall.amount
    /\ \E b \in Addresses :
          b # lastCall.bettor /\ MapHas(Bets, <<lastCall.match_id, b>>)

-----------------------------------------------------------------------------
(* C11 *)

\* C11, as stated: every set_prevent_double_betting call whose admin is not
\* the configured backend signer, and every call made while no signer is
\* configured, fails with Unauthorized and leaves the policy flag unchanged.
C11_NonSignerAlwaysUnauthorized ==
    [][(IsCall("set_prevent_double_betting")
          /\ (BackendSigner = None \/ lastCall'.admin # BackendSigner))
        => /\ lastCall'.result = "Unauthorized"
           /\ UNCHANGED PreventDoubleBetting]_vars

\* C11, amended: a set_prevent_double_betting call made while no signer is
\* configured fails with Unauthorized; one whose admin is not the configured
\* signer fails with Unauthorized when admin authorized the call and at
\* admin.require_auth() when it did not; each of them leaves the flag
\* unchanged, and the flag is changed only by a set_prevent_double_betting
\* call whose admin is the configured signer and authorized the call.
C11_SetPreventOnlyBySigner ==
    [][/\ (IsCall("set_prevent_double_betting")
             /\ (BackendSigner = None \/ lastCall'.admin # BackendSigner))
           => /\ lastCall'.result =
                    (IF BackendSigner = None
                        \/ RequireAuth(lastCall'.admin, lastCall'.auths)
                     THEN "Unauthorized" ELSE "AuthFailed")
              /\ UNCHANGED PreventDoubleBetting
       /\ (PreventDoubleBetting' # PreventDoubleBetting)
           => /\ IsCall("set_prevent_double_betting")
              /\ BackendSigner # None
              /\ lastCall'.admin = BackendSigner
              /\ RequireAuth(BackendSigner, lastCall'.auths)]_vars

\* an authorized caller other than the configured signer was refused while
\* the policy was already set
C11_Witness ==
    /\ lastCall.op = "set_prevent_double_betting"
    /\ BackendSigner # None
    /\ lastCall.admin # BackendSigner
    /\ RequireAuth(lastCall.admin, lastCall.auths)
    /\ lastCall.result = "Unauthorized"
    /\ PreventDoubleBetting = {~lastCall.prevent}

-----------------------------------------------------------------------------
(* C12 *)

\* C12: a successful place_bet takes exactly amount from the bettor's balance
\* of the token, adds exactly amount to the contract's balance of the token,
\* changes no other balance, and stores under (match_id, bettor) a Bet whose
\* amount is the amount of the call.
C12_BetMovesStakeIntoCustody ==
    [][(IsCall("place_bet") /\ lastCall'.result = "Ok")
        => LET token == lastCall'.token_address
               bettor == lastCall'.bettor
               amount == lastCall'.amount
           IN  /\ balance'[token][bettor] = balance[token][bettor] - amount
               /\ balance'[token][ContractAddress] =
                      balance[token][ContractAddress] + amount
               /\ \A t \in Tokens, a \in Addresses \cup {ContractAddress} :
                      (t # token \/ a \notin {bettor, ContractAddress})
                          => balance'[t][a] = balance[t][a]
               /\ MapHas(Bets', <<lastCall'.match_id, bettor>>)
               /\ Bets'[<<lastCall'.match_id, bettor>>].amount = amount]_vars

\* bob staked all he had while alice's funds were untouched
C12_Witness ==
    /\ lastCall.op = "place_bet"
    /\ lastCall.result = "Ok"
    /\ lastCall.bettor = "bob"
    /\ lastCall.amount = InitialFunds("bob")
    /\ balance[lastCall.token_address]["bob"] = 0
    /\ balance[lastCall.token_address]["alice"] = InitialFunds("alice")
    /\ balance[lastCall.token_address][ContractAddress] = lastCall.amount
    /\ Bets[<<lastCall.match_id, "bob">>].amount = lastCall.amount

-----------------------------------------------------------------------------
(* C13 *)

\* C13: a place_bet whose token transfer fails (the bettor authorized the
\* call and the stake is positive and not blocked by the policy, but the
\* bettor holds less than the stake) aborts as a whole: no Bet is stored or
\* overwritten, no balance changes, and no BetPlaced event is emitted.
C13_FailedTransferAbortsBet ==
    [][/\ (IsCall("place_bet")
             /\ RequireAuth(lastCall'.bettor, lastCall'.auths)
             /\ lastCall'.amount > 0
             /\ ~DoubleBetBlocked(lastCall'.match_id, lastCall'.bettor)
             /\ balance[lastCall'.token_address][lastCall'.bettor]
                    < lastCall'.amount)
           => lastCall'.result = "TransferFailed"
       /\ (IsCall("place_bet") /\ lastCall'.result = "TransferFailed")
           => /\ UNCHANGED <<Bets, balance, events>>
              /\ lastCall'.published = <<>>]_vars

\* a first bet on a match failed in the transfer, after the bettor had put
\* funds on the other match, and left no Bet behind
C13_Witness ==
    /\ lastCall.op = "place_bet"
    /\ lastCall.result = "TransferFailed"
    /\ balance[lastCall.token_address][lastCall.bettor] > 0
    /\ balance[lastCall.token_address][ContractAddress] > 0
    /\ ~MapHas(Bets, <<lastCall.match_id, lastCall.bettor>>)
    /\ \E m \in MatchIds : MapHas(Bets, <<m, lastCall.bettor>>)

-----------------------------------------------------------------------------
(* C14 *)

\* C14: once initialize has set the backend signer, the signer never changes,
\* whatever calls follow, further initialize calls included.
C14_BackendSignerImmutable ==
    [][BackendSigner # None => BackendSigner' = BackendSigner]_vars

-----------------------------------------------------------------------------
(* C15 *)

\* C15: the contract's custody balance of each token never decreases, and it
\* increases only in a successful place_bet on that token.
C15_CustodyNeverDecreases ==
    [][\A t \in Tokens :
          /\ balance'[t][ContractAddress] >= balance[t][ContractAddress]
          /\ (balance'[t][ContractAddress] # balance[t][ContractAddress])
              => /\ IsCall("place_bet")
                 /\ lastCall'.result = "Ok"
                 /\ lastCall'.token_address = t]_vars

\* funds of both bettors are in custody, and a spin has since been executed
\* and the policy set without touching them
C15_Witness ==
    /\ \E t \in Tokens :
          /\ balance[t][ContractAddress] > 0
          /\ \A a \in Addresses : balance[t][a] < InitialFunds(a)
    /\ SpinExecutions # EmptyMap
    /\ PreventDoubleBetting # {}
    /\ lastCall.op = "set_prevent_double_betting"
    /\ lastCall.result = "Ok"

-----------------------------------------------------------------------------
(* C16 *)

\* the SpinExecuted events emitted so far
SpinExecutedEvents ==
    {e \in BagToSet(events) : e.topics = <<"spin_executed">>}

\* every stored record has exactly one SpinExecuted event, emitted once, with
\* the record's fields, and every SpinExecuted event is the one of a record
SpinEventsMatchRecords ==
    /\ \A e \in SpinExecutedEvents :
          /\ CopiesIn(e, events) = 1
          /\ MapHas(SpinExecutions, e.data.spin_id)
          /\ e.data = SpinExecutions[e.data.spin_id]
    /\ \A id \in DOMAIN SpinExecutions :
          \E e \in SpinExecutedEvents : e.data.spin_id = id
    /\ Cardinality(SpinExecutedEvents) = Cardinality(DOMAIN SpinExecutions)

\* C16: a successful execute_spin emits exactly one SpinExecuted event whose
\* spin_id, executor and timestamp are those of the record it stores; a
\* failed execute_spin emits none; so at every moment the SpinExecuted events
\* emitted so far and the stored records are in one-to-one correspondence.
C16_OneSpinEventPerRecord ==
    /\ SpinEventsMatchRecords
    /\ [][/\ (IsCall("execute_spin") /\ lastCall'.result = "Ok")
              => /\ Len(lastCall'.published) = 1
                 /\ lastCall'.published[1].topics = <<"spin_executed">>
                 /\ lastCall'.published[1].data
                        = SpinExecutions'[lastCall'.spin_id]
                 /\ events' = events (+) SetToBag({lastCall'.published[1]})
          /\ (IsCall("execute_spin") /\ lastCall'.result # "Ok")
              => /\ lastCall'.published = <<>>
                 /\ events' = events
          /\ SpinEventsMatchRecords']_vars

\* two spins were executed at different times, each with its event, and a
\* replay of one of them has just failed
C16_Witness ==
    /\ lastCall.op = "execute_spin"
    /\ lastCall.result = "SpinAlreadyExecuted"
    /\ Cardinality(DOMAIN SpinExecutions) = 2
    /\ Cardinality(SpinExecutedEvents) = 2
    /\ \E e1, e2 \in SpinExecutedEvents : e1.data.timestamp # e2.data.timestamp

-----------------------------------------------------------------------------
(* C17 *)

\* the BetPlaced events emitted so far
BetPlacedEvents ==
    {e \in BagToSet(events) : e.topics[1] = "bet_placed"}

\* C17: every successful place_bet emits exactly one BetPlaced event whose
\* payload carries the bettor, the match_id of the bet and the amount, so
\* that the payloads of two bets on different matches differ even when the
\* bettor and the amount are the same.
C17_BetPayloadIdentifiesMatch ==
    /\ \A e1, e2 \in BetPlacedEvents :
          e1.topics[2] # e2.topics[2] => e1.data # e2.data
    /\ (lastCall.op = "place_bet" /\ lastCall.result = "Ok")
        => /\ Len(lastCall.published) = 1
           /\ lastCall.published[1].data.bettor = lastCall.bettor
           /\ lastCall.published[1].data.amount = lastCall.amount

-----------------------------------------------------------------------------
(* C18 *)

-----------------------------------------------------------------------------
(* C19 *)

\* C19: execute_spin writes only when the spin_hash check and the spin_id
\* check have both passed, and then it writes the record and the hash
\* together: a step that adds a record adds exactly one record and exactly
\* one used hash, the ones of the call, no step adds the one without the
\* other, and in every reachable state there are as many SpinExecution
\* records as used hashes.
C19_RecordAndHashWrittenTogether ==
    /\ Cardinality(DOMAIN SpinExecutions) = Cardinality(DOMAIN UsedSpinHashes)
    /\ [][/\ (IsCall("execute_spin") /\ lastCall'.result = "Ok")
              => /\ ~SpinHashReplayed(lastCall'.spin_hash)
                 /\ ~SpinIdDuplicate(lastCall'.spin_id)
                 /\ DOMAIN SpinExecutions' =
                        DOMAIN SpinExecutions \cup {lastCall'.spin_id}
                 /\ DOMAIN UsedSpinHashes' =
                        DOMAIN UsedSpinHashes \cup {lastCall'.spin_hash}
          /\ (SpinExecutions' # SpinExecutions
                \/ UsedSpinHashes' # UsedSpinHashes)
              => /\ IsCall("execute_spin")
                 /\ lastCall'.result = "Ok"
                 /\ SpinExecutions' # SpinExecutions
                 /\ UsedSpinHashes' # UsedSpinHashes
          /\ Cardinality(DOMAIN SpinExecutions')
                = Cardinality(DOMAIN UsedSpinHashes')]_vars

\* both spins are recorded with both hashes used, and a call with a recorded
\* spin_id and a used hash has just been refused without writing
C19_Witness ==
    /\ lastCall.op = "execute_spin"
    /\ lastCall.result = "SpinAlreadyExecuted"
    /\ DOMAIN SpinExecutions = SpinIds
    /\ DOMAIN UsedSpinHashes = SpinHashes

-----------------------------------------------------------------------------
(* C20 *)

-----------------------------------------------------------------------------
(* C21 *)

\* C21: with double-betting prevention disabled, a place_bet of a bettor who
\* authorized it and holds the stake succeeds although a Bet is stored under
\* (match_id, bettor), and it replaces that Bet with the one of the call
\* (amount, bet_type, odds, and the timestamp of the call): no record is
\* added, so there is one Bet per (match_id, bettor), while the stake of the
\* replaced Bet stays in custody and the new stake is added to it.
C21_SecondBetReplacesFirst ==
    [][(IsCall("place_bet") /\ MapHas(Bets, <<lastCall'.match_id, lastCall'.bettor>>))
        => LET key == <<lastCall'.match_id, lastCall'.bettor>>
               token == lastCall'.token_address
               amount == lastCall'.amount
           IN  /\ (/\ ~is_double_betting_prevented
                   /\ RequireAuth(lastCall'.bettor, lastCall'.auths)
                   /\ amount > 0
                   /\ balance[token][lastCall'.bettor] >= amount)
                  => lastCall'.result = "Ok"
               /\ lastCall'.result = "Ok"
                  => /\ ~is_double_betting_prevented
                     /\ Bets'[key] = [bettor |-> lastCall'.bettor,
                                      amount |-> amount,
                                      match_id |-> lastCall'.match_id,
                                      bet_type |-> lastCall'.bet_type,
                                      odds |-> lastCall'.odds,
                                      timestamp |-> timestamp]
                     /\ DOMAIN Bets' = DOMAIN Bets
                     /\ \A k \in DOMAIN Bets \ {key} : Bets'[k] = Bets[k]
                     /\ balance[token][ContractAddress] >= Bets[key].amount
                     /\ balance'[token][ContractAddress] =
                            balance[token][ContractAddress] + amount]_vars

\* a later bet of another kind has replaced the first one on the match: the
\* stored Bet is the later one and custody holds more than its stake
C21_Witness ==
    /\ lastCall.op = "place_bet"
    /\ lastCall.result = "Ok"
    /\ ~is_double_betting_prevented
    /\ Cardinality(DOMAIN Bets) = 1
    /\ LET bet == Bets[<<lastCall.match_id, lastCall.bettor>>]
       IN  /\ bet.bet_type = "draw"
           /\ bet.odds = 350
           /\ bet.timestamp = 1
           /\ bet.amount = lastCall.amount
           /\ balance[lastCall.token_address][ContractAddress] > bet.amount
    /\ \E e \in BetPlacedEvents : e.topics[1] = "bet_placed" /\ CopiesIn(e, events) = 2

-----------------------------------------------------------------------------
(* C22 *)

RECURSIVE SumOfBets(_)
\* the sum of the amounts of the Bets stored under the keys in `keys`
SumOfBets(keys) ==
    IF keys = {} THEN 0
    ELSE LET k == CHOOSE x \in keys : TRUE
         IN  Bets[k].amount + SumOfBets(keys \ {k})

RECURSIVE StakedOn(_, _, _)
\* the total amount of the BetPlaced events in `evs` of `bettor` on `match_id`
StakedOn(match_id, bettor, evs) ==
    IF evs = {} THEN 0
    ELSE LET e == CHOOSE x \in evs : TRUE
         IN  (IF e.topics[2] = match_id /\ e.data.bettor = bettor
              THEN e.data.amount * CopiesIn(e, events) ELSE 0)
             + StakedOn(match_id, bettor, evs \ {e})

\* C22: in every reachable state, for each (match_id, bettor) the amount of
\* the stored Bet equals the total amount that successful place_bet calls of
\* that bettor on that match have moved into custody, and the contract's
\* custody balance of the token equals the sum of the amounts of all stored
\* Bets.
C22_BetsAccountForCustody ==
    /\ \A key \in DOMAIN Bets :
          Bets[key].amount = StakedOn(key[1], key[2], BetPlacedEvents)
    /\ \A t \in Tokens :
          balance[t][ContractAddress] = SumOfBets(DOMAIN Bets)

-----------------------------------------------------------------------------
(* C23 *)

\* the call shares its spin_id or its spin_hash with a committed execute_spin
SharesWithCommitted(call) ==
    is_spin_executed(call.spin_id) \/ is_spin_hash_used(call.spin_hash)

\* C23, as stated: calls run one at a time, in either order; of two
\* execute_spin transactions that share a spin_id or a spin_hash, the one
\* that runs after the other has committed fails with SpinAlreadyExecuted and
\* writes nothing.
C23_LoserAlwaysSpinAlreadyExecuted ==
    [][(IsCall("execute_spin") /\ SharesWithCommitted(lastCall'))
        => /\ lastCall'.result = "SpinAlreadyExecuted"
           /\ UNCHANGED <<SpinExecutions, UsedSpinHashes>>]_vars

\* C23, amended: calls run one at a time, in either order.  An execute_spin
\* that shares a spin_id or a spin_hash with a committed one never commits
\* and writes nothing; it fails with SpinAlreadyExecuted when its executor
\* and the configured backend signer authorized it (it may fail at a
\* require_auth instead when they did not).  An authorized execute_spin that
\* shares neither with a committed one commits, and afterwards the records
\* and hash markers of the earlier ones are all still present next to its
\* own.
C23_SerialSpinsExcludeOrCompose ==
    [][IsCall("execute_spin")
        => /\ SharesWithCommitted(lastCall')
              => /\ lastCall'.result # "Ok"
                 /\ BothAuthorized(lastCall')
                      => lastCall'.result = "SpinAlreadyExecuted"
                 /\ UNCHANGED <<SpinExecutions, UsedSpinHashes>>
           /\ (~SharesWithCommitted(lastCall') /\ BothAuthorized(lastCall'))
              => /\ lastCall'.result = "Ok"
                 /\ DOMAIN SpinExecutions' =
                        DOMAIN SpinExecutions \cup {lastCall'.spin_id}
                 /\ DOMAIN UsedSpinHashes' =
                        DOMAIN UsedSpinHashes \cup {lastCall'.spin_hash}
                 /\ \A id \in DOMAIN SpinExecutions :
                        SpinExecutions'[id] = SpinExecutions[id]
                 /\ \A h \in DOMAIN UsedSpinHashes : UsedSpinHashes'[h]]_vars

\* the second of two spins with distinct spin_ids and distinct hashes, run by
\* different executors, has just committed and both records are stored
C23_Witness ==
    /\ lastCall.op = "execute_spin"
    /\ lastCall.result = "Ok"
    /\ DOMAIN SpinExecutions = SpinIds
    /\ DOMAIN UsedSpinHashes = SpinHashes
    /\ \E id \in SpinIds :
          /\ id # lastCall.spin_id
          /\ SpinExecutions[id].executor # lastCall.executor
          /\ SpinExecutions[lastCall.spin_id].executor = lastCall.executor

-----------------------------------------------------------------------------
(* C24 *)

\* C24: once the player-card initialize has succeeded, every later
\* initialize call fails and leaves the admin and the next-token-id counter
\* unchanged; the admin never changes afterwards, and a mint succeeds only
\* with the authorization of that admin.
C24_CardInitializedOnce ==
    [][/\ (IsCall("card_initialize") /\ ADMIN # None)
           => /\ lastCall'.result = "already initialized"
              /\ lastCall'.published = <<>>
              /\ UNCHANGED <<ADMIN, NEXT_TOKEN_ID>>
       /\ (IsCall("card_initialize") /\ ADMIN = None)
           => /\ lastCall'.result = "Ok"
              /\ ADMIN' = lastCall'.admin
              /\ NEXT_TOKEN_ID' = {1}
       /\ ADMIN # None => ADMIN' = ADMIN
       /\ (IsCall("mint") /\ lastCall'.result = "Ok")
           => /\ ADMIN # None
              /\ RequireAuth(ADMIN, lastCall'.auths)]_vars

\* a later initialize, naming another admin, was refused and the admin and
\* the counter are those of the first one
C24_Witness ==
    /\ lastCall.op = "card_initialize"
    /\ lastCall.result = "already initialized"
    /\ ADMIN # None
    /\ lastCall.admin # ADMIN
    /\ NEXT_TOKEN_ID = {1}
    /\ timestamp > 0

-----------------------------------------------------------------------------
(* C25 *)

\* the elements of a Vec
Elements(tokens) == {tokens[i] : i \in 1 .. Len(tokens)}

\* for every address, tokens_of_owner lists exactly the tokens that owner_of
\* gives to it, each once; the tokens that exist are 1 .. total_supply
OwnerIndexAgrees ==
    /\ \A a \in Addresses :
          LET tokens == tokens_of_owner(a)
          IN  /\ Cardinality(Elements(tokens)) = Len(tokens)
              /\ Elements(tokens) =
                    {t \in DOMAIN TOKEN_OWNER : TOKEN_OWNER[t] = a}
    /\ DOMAIN OWNER_TOKENS \subseteq Addresses
    /\ DOMAIN TOKEN_OWNER = 1 .. total_supply
    /\ \A t \in DOMAIN TOKEN_OWNER : owner_of(t).value \in Addresses

\* C25: after any sequence of mint and transfer calls, self-transfers
\* included, tokens_of_owner(a) holds exactly the tokens t with
\* owner_of(t) = a, each once; token ids are assigned 1, 2, 3, ... in mint
\* order; total_supply is the number of successful mints; and a transfer
\* succeeds only when `from` is the current owner of the token (and
\* authorized the call), after which `to` owns it.
C25_OwnerIndexConsistent ==
    /\ OwnerIndexAgrees
    /\ total_supply = 0
    /\ [][/\ OwnerIndexAgrees'
          /\ (IsCall("mint") /\ lastCall'.result = "Ok")
              => /\ lastCall'.value = total_supply + 1
                 /\ total_supply' = total_supply + 1
                 /\ ~MapHas(TOKEN_OWNER, lastCall'.value)
                 /\ TOKEN_OWNER'[lastCall'.value] = lastCall'.to
                 /\ \A t \in DOMAIN TOKEN_OWNER : TOKEN_OWNER'[t] = TOKEN_OWNER[t]
          /\ ~(IsCall("mint") /\ lastCall'.result = "Ok")
              => total_supply' = total_supply
          /\ (IsCall("transfer") /\ lastCall'.result = "Ok")
              => /\ MapHas(TOKEN_OWNER, lastCall'.token_id)
                 /\ TOKEN_OWNER[lastCall'.token_id] = lastCall'.from
                 /\ RequireAuth(lastCall'.from, lastCall'.auths)
                 /\ TOKEN_OWNER'[lastCall'.token_id] = lastCall'.to
                 /\ \A t \in DOMAIN TOKEN_OWNER \ {lastCall'.token_id} :
                        TOKEN_OWNER'[t] = TOKEN_OWNER[t]]_vars

\* three cards were minted; the owner of two of them has just transferred
\* the older one to themselves, which moved it to the end of their list,
\* and the third card belongs to the other address
C25_Witness ==
    /\ lastCall.op = "transfer"
    /\ lastCall.result = "Ok"
    /\ lastCall.from = lastCall.to
    /\ total_supply = 3
    /\ Len(tokens_of_owner(lastCall.from)) = 2
    /\ tokens_of_owner(lastCall.from)[2] = lastCall.token_id
    /\ tokens_of_owner(lastCall.from)[1] > lastCall.token_id
    /\ \E a \in Addresses \ {lastCall.from} : Len(tokens_of_owner(a)) = 1

====
